---- MODULE Spec2Model ----
(***************************************************************************)
(* RAGvix: text chunker, JSONL I/O, FAISS vector store, retriever and      *)
(* retrieval metrics, modelled from src/src/ragvix.                        *)
(*                                                                         *)
(* Strings are sequences of one-character strings, so slicing, stripping   *)
(* and JSON encoding are computed character by character.  Python floats   *)
(* that are quotients of integers are kept as pairs <<num, den>>.          *)
(***************************************************************************)
EXTENDS Integers, Sequences, FiniteSets, TLC

VARIABLES
    text, chunk_size, overlap, chunks, cpc,      \* chunker call: inputs, result, position
    retrieved_ids, relevant_ids, k, precision, epc, \* metric call: inputs, result, position
    store, disk, out, hist,                      \* FAISSStore object, index directory, last outcome
    retr, tpc, tsaw, nloads,                     \* Retriever object and its search threads
    recall, rpc,                                 \* recall call: result, position
    stub, seed_result, eval_result, spc,         \* seed evaluation: retriever stub, results, position
    papers_metadata, chunk_abstracts, all_chunks, ppc, \* chunk_papers_from_metadata call
    filepath, prior_file, jdata, readback, jpc,  \* a JSONL file, its prior state, the list written, the list read
    fetched, out_file, exit_code, fpc            \* fetch command: API outcome, output file, exit status

vars == <<text, chunk_size, overlap, chunks, cpc,
          retrieved_ids, relevant_ids, k, precision, epc,
          store, disk, out, hist,
          retr, tpc, tsaw, nloads,
          recall, rpc,
          stub, seed_result, eval_result, spc,
          papers_metadata, chunk_abstracts, all_chunks, ppc,
          filepath, prior_file, jdata, readback, jpc,
          fetched, out_file, exit_code, fpc>>

chunkVars == <<text, chunk_size, overlap, chunks, cpc>>
evalVars  == <<retrieved_ids, relevant_ids, k, precision, epc, recall, rpc>>
storeVars == <<store, disk, out, hist>>
retrVars  == <<retr, tpc, tsaw, nloads>>
seedVars  == <<stub, seed_result, eval_result, spc>>
paperVars == <<papers_metadata, chunk_abstracts, all_chunks, ppc>>
jsonlVars == <<filepath, prior_file, jdata, readback, jpc>>
fetchVars == <<fetched, out_file, exit_code, fpc>>
moreVars  == <<seedVars, paperVars, jsonlVars, fetchVars>>

(***************************************************************************)
(* Bounds of the model.                                                    *)
(***************************************************************************)
MaxTextLen == 4
MaxChunkSize == 21
MaxOverlap == 21
MaxRetrieved == 3
MaxK == 4

(***************************************************************************)
(* Program constants.                                                      *)
(***************************************************************************)
DefaultChunkSize == 1200
DefaultOverlap == 120

Min(a, b) == IF a < b THEN a ELSE b
Max(a, b) == IF a > b THEN a ELSE b

RECURSIVE Concat(_)
Concat(ss) == IF ss = <<>> THEN <<>> ELSE Head(ss) \o Concat(Tail(ss))

\* Sequences over S of length 0..n.
SeqsUpTo(S, n) == UNION {[1..m -> S] : m \in 0..n}

(***************************************************************************)
(* Python string primitives.                                               *)
(***************************************************************************)
\* The characters str.strip() removes that occur in the model's alphabets.
Whitespace == {" ", "\n", "\t", "\r"}

\* s[a:b] for 0 <= a, 0 <= b: truncated at the end of s.
PySlice(s, a, b) == SubSeq(s, a + 1, Min(b, Len(s)))

\* s.strip()
Strip(s) ==
    LET keep == {i \in 1..Len(s) : s[i] \notin Whitespace}
    IN  IF keep = {} THEN <<>>
        ELSE LET lo == CHOOSE i \in keep : \A j \in keep : i <= j
                 hi == CHOOSE i \in keep : \A j \in keep : i >= j
             IN  SubSeq(s, lo, hi)

(***************************************************************************)
(* json.dumps / json.loads on the values the program stores: a dict is a   *)
(* sequence of <<key, value>> pairs in insertion order, a value is a str,  *)
(* a non-negative int or a list of str.                                    *)
(***************************************************************************)
StrVal(s) == [t |-> "str", s |-> s, n |-> 0, l |-> <<>>]
IntVal(n) == [t |-> "int", s |-> <<>>, n |-> n, l |-> <<>>]
ListVal(l) == [t |-> "list", s |-> <<>>, n |-> 0, l |-> l]

Digits == <<"0", "1", "2", "3", "4", "5", "6", "7", "8", "9">>
DigitSet == {Digits[i] : i \in 1..10}
DigitVal(c) == (CHOOSE i \in 1..10 : Digits[i] = c) - 1

RECURSIVE EncodeNat(_)
EncodeNat(n) ==
    IF n < 10 THEN <<Digits[n + 1]>>
    ELSE EncodeNat(n \div 10) \o <<Digits[(n % 10) + 1]>>

\* json.encoder.ESCAPE_DCT, for the characters of the model's alphabets
\* (ensure_ascii=False: a non-ASCII character is written as itself).
EscChar(c) ==
    CASE c = "\"" -> <<"\\", "\"">>
      [] c = "\\" -> <<"\\", "\\">>
      [] c = "\n" -> <<"\\", "n">>
      [] c = "\r" -> <<"\\", "r">>
      [] c = "\t" -> <<"\\", "t">>
      [] OTHER -> <<c>>

EncodeStr(s) ==
    <<"\"">> \o Concat([i \in 1..Len(s) |-> EscChar(s[i])]) \o <<"\"">>

\* A list: "[", the items separated by ", ", "]".
EncodeList(l) ==
    <<"[">>
    \o Concat([i \in 1..Len(l) |->
                 (IF i > 1 THEN <<",", " ">> ELSE <<>>) \o EncodeStr(l[i])])
    \o <<"]">>

EncodeVal(v) ==
    CASE v.t = "str" -> EncodeStr(v.s)
      [] v.t = "int" -> EncodeNat(v.n)
      [] v.t = "list" -> EncodeList(v.l)

\* json.dumps(d): the default separators are ", " and ": ".
JsonDumps(d) ==
    <<"{">>
    \o Concat([i \in 1..Len(d) |->
                 (IF i > 1 THEN <<",", " ">> ELSE <<>>)
                 \o EncodeStr(d[i][1]) \o <<":", " ">> \o EncodeVal(d[i][2])])
    \o <<"}">>

\* json.dump(d, f, indent=2): one member per line, indented by two spaces,
\* members separated by "," and a newline; an empty dict is "{}".
JsonDumpIndent2(d) ==
    IF d = <<>> THEN <<"{", "}">>
    ELSE <<"{", "\n">>
         \o Concat([i \in 1..Len(d) |->
                      (IF i > 1 THEN <<",", "\n">> ELSE <<>>)
                      \o <<" ", " ">>
                      \o EncodeStr(d[i][1]) \o <<":", " ">> \o EncodeVal(d[i][2])])
         \o <<"\n", "}">>

ParseFail == [ok |-> FALSE, val |-> <<>>, next |-> 0]

\* The characters of a JSON string from position i (after the opening quote)
\* to its closing quote.  A raw control character is rejected (strict mode).
RECURSIVE ScanStr(_, _, _)
ScanStr(s, i, acc) ==
    IF i > Len(s) THEN ParseFail
    ELSE IF s[i] = "\"" THEN [ok |-> TRUE, val |-> acc, next |-> i + 1]
    ELSE IF s[i] = "\\" THEN
        IF i + 1 > Len(s) THEN ParseFail
        ELSE CASE s[i + 1] = "\"" -> ScanStr(s, i + 2, Append(acc, "\""))
               [] s[i + 1] = "\\" -> ScanStr(s, i + 2, Append(acc, "\\"))
               [] s[i + 1] = "n" -> ScanStr(s, i + 2, Append(acc, "\n"))
               [] s[i + 1] = "r" -> ScanStr(s, i + 2, Append(acc, "\r"))
               [] s[i + 1] = "t" -> ScanStr(s, i + 2, Append(acc, "\t"))
               [] OTHER -> ParseFail
    ELSE IF s[i] \in {"\n", "\r", "\t"} THEN ParseFail
    ELSE ScanStr(s, i + 1, Append(acc, s[i]))

ParseStr(s, i) ==
    IF i <= Len(s) /\ s[i] = "\"" THEN ScanStr(s, i + 1, <<>>) ELSE ParseFail

RECURSIVE ScanNat(_, _, _)
ScanNat(s, i, acc) ==
    IF i <= Len(s) /\ s[i] \in DigitSet
    THEN ScanNat(s, i + 1, 10 * acc + DigitVal(s[i]))
    ELSE [ok |-> TRUE, val |-> acc, next |-> i]

\* Whether s holds the character c at position i.
At(s, i, c) == i <= Len(s) /\ s[i] = c

\* The first position from i on that holds no JSON whitespace.
RECURSIVE SkipWs(_, _)
SkipWs(s, i) ==
    IF i <= Len(s) /\ s[i] \in {" ", "\n", "\r", "\t"} THEN SkipWs(s, i + 1) ELSE i

\* The items of a list from the item at position i, up to and including the
\* closing "]".
RECURSIVE ParseItems(_, _, _)
ParseItems(s, i, acc) ==
    LET AfterItem(item, m) ==
            IF At(s, m, "]")
            THEN [ok |-> TRUE, val |-> Append(acc, item.val), next |-> m + 1]
            ELSE IF At(s, m, ",")
            THEN ParseItems(s, SkipWs(s, m + 1), Append(acc, item.val))
            ELSE ParseFail
        Item(item) == IF ~item.ok THEN ParseFail ELSE AfterItem(item, SkipWs(s, item.next))
    IN  Item(ParseStr(s, i))

ParseList(s, i) ==
    LET Items(j) == IF At(s, j, "]") THEN [ok |-> TRUE, val |-> <<>>, next |-> j + 1]
                    ELSE ParseItems(s, j, <<>>)
    IN  Items(SkipWs(s, i + 1))

ParseVal(s, i) ==
    IF i > Len(s) THEN ParseFail
    ELSE IF s[i] = "[" THEN
        LET AsList(r) == IF r.ok THEN [ok |-> TRUE, val |-> ListVal(r.val), next |-> r.next]
                         ELSE ParseFail
        IN  AsList(ParseList(s, i))
    ELSE IF s[i] = "\"" THEN
        LET AsStr(r) == IF r.ok THEN [ok |-> TRUE, val |-> StrVal(r.val), next |-> r.next]
                      ELSE ParseFail
        IN  AsStr(ParseStr(s, i))
    ELSE IF s[i] \in DigitSet THEN
        LET AsInt(r) == [ok |-> TRUE, val |-> IntVal(r.val), next |-> r.next]
        IN  AsInt(ScanNat(s, i, 0))
    ELSE ParseFail

\* The members of an object from the key at position i, up to and including
\* the closing "}".
RECURSIVE ParsePairs(_, _, _)
ParsePairs(s, i, acc) ==
    LET AfterValue(key, v, m) ==
            IF At(s, m, "}")
            THEN [ok |-> TRUE, val |-> Append(acc, <<key.val, v.val>>), next |-> m + 1]
            ELSE IF At(s, m, ",")
            THEN ParsePairs(s, SkipWs(s, m + 1), Append(acc, <<key.val, v.val>>))
            ELSE ParseFail
        Value(key, v) ==
            IF ~v.ok THEN ParseFail ELSE AfterValue(key, v, SkipWs(s, v.next))
        Colon(key, j) ==
            IF ~At(s, j, ":") THEN ParseFail
            ELSE Value(key, ParseVal(s, SkipWs(s, j + 1)))
        AfterKey(key) ==
            IF ~key.ok THEN ParseFail ELSE Colon(key, SkipWs(s, key.next))
    IN  AfterKey(ParseStr(s, i))

\* json.loads(s) of one object: [ok, val]; ok = FALSE is a JSONDecodeError.
JsonLoads(s) ==
    LET Whole(r) == IF r.ok /\ SkipWs(s, r.next) = Len(s) + 1
                    THEN [ok |-> TRUE, val |-> r.val]
                    ELSE [ok |-> FALSE, val |-> <<>>]
        Members(j) == IF At(s, j, "}") THEN [ok |-> TRUE, val |-> <<>>, next |-> j + 1]
                      ELSE ParsePairs(s, j, <<>>)
        Object(i) == IF At(s, i, "{") THEN Members(SkipWs(s, i + 1)) ELSE ParseFail
    IN  Whole(Object(SkipWs(s, 1)))

(***************************************************************************)
(* utils/io.py: write_jsonl, read_jsonl                                    *)
(***************************************************************************)
\* A writer that leaves out the line terminator.
write_jsonl_unterminated(data) ==
    Concat([i \in 1..Len(data) |-> JsonDumps(data[i])])

\* The file contents write_jsonl leaves when every write succeeds.
write_jsonl(data) ==
    Concat([i \in 1..Len(data) |-> JsonDumps(data[i]) \o <<"\n">>])

\* `for line in f`: the lines of a file in order, each without its
\* terminator.  A line starts at the first character and after every line
\* break that is not the last character.  ("\r\n" counts here as two breaks
\* around an empty line, which read_jsonl skips.)
SplitLines(s) ==
    LET brk == {i \in 1..Len(s) : s[i] \in {"\n", "\r"}}
        starts == {p \in {1} \cup {i + 1 : i \in brk} : p <= Len(s)}
        Start(j) == CHOOSE p \in starts : Cardinality({q \in starts : q < p}) = j - 1
        End(p) == CHOOSE e \in p..(Len(s) + 1) :
                      /\ e \in brk \cup {Len(s) + 1}
                      /\ \A i \in p..(e - 1) : i \notin brk
        Line(p) == SubSeq(s, p, End(p) - 1)
    IN  [j \in 1..Cardinality(starts) |-> Line(Start(j))]

\* The loop of read_jsonl over the lines: [ok, val]; ok = FALSE is the
\* JSONDecodeError of the first line that does not parse.
RECURSIVE ReadLines(_, _)
ReadLines(lines, acc) ==
    IF lines = <<>> THEN [ok |-> TRUE, val |-> acc]
    ELSE LET Loaded(r) == IF r.ok THEN ReadLines(Tail(lines), Append(acc, r.val))
                          ELSE [ok |-> FALSE, val |-> <<>>]
             Line(line) == IF line = <<>> THEN ReadLines(Tail(lines), acc)
                           ELSE Loaded(JsonLoads(line))
         IN  Line(Strip(Head(lines)))

read_jsonl(content) == ReadLines(SplitLines(content), <<>>)

(***************************************************************************)
(* chunker.py: chunk_text                                                  *)
(***************************************************************************)
\* A step that ignores the overlap.
StepNoOverlap(cs, ov) == Max(cs, 1)

\* step = max(chunk_size - overlap, 1)
Step(cs, ov) == Max(cs - ov, 1)

\* A threshold that also drops a window of exactly 10%.
TooSmallInclusive(n, cs) == 10 * n <= cs

\* len(chunk_text) < chunk_size * 0.1.  The float product cs * 0.1 is compared
\* with an integer; for every cs the comparison agrees with 10 * n < cs.
TooSmall(n, cs) == 10 * n < cs

\* The body of `for i in range(0, len(text), step)`, from offset i on, acc
\* being the list `chunks` so far.
RECURSIVE ChunkLoop(_, _, _, _, _, _, _, _)
ChunkLoop(t, cs, step, arxiv_id, title, section, i, acc) ==
    IF i >= Len(t) THEN acc
    ELSE LET w == PySlice(t, i, i + cs)
         IN  IF TooSmall(Len(w), cs) THEN acc
             ELSE ChunkLoop(t, cs, step, arxiv_id, title, section, i + step,
                      Append(acc,
                        [text |-> w,
                         metadata |-> [arxiv_id |-> arxiv_id,
                                       title |-> title,
                                       section |-> section,
                                       chunk_index |-> Len(acc),
                                       char_start |-> i,
                                       char_end |-> i + Len(w),
                                       chunk_size |-> Len(w)]]))

chunk_text(t, cs, ov, arxiv_id, title, section) ==
    IF Strip(t) = <<>> THEN <<>>
    ELSE ChunkLoop(Strip(t), cs, Step(cs, ov), arxiv_id, title, section, 0, <<>>)

(***************************************************************************)
(* Inputs of the chunker.                                                  *)
(***************************************************************************)
TextAlphabet == {" ", "a", "b"}

\* A text of n non-blank characters whose neighbours differ.
Pattern(n) == [i \in 1..n |-> IF i % 2 = 1 THEN "a" ELSE "b"]

\* Lengths around the default window, step and tail threshold.
LongLens == {119, 120, 1085, 1199, 1200, 1201, 1205, 2000, 2279, 2280}

LongTexts == {Pattern(n) : n \in LongLens}
             \cup {<<" ", "\n">> \o Pattern(n) \o <<" ">> : n \in {1205, 2000}}

ShortTexts == SeqsUpTo(TextAlphabet, MaxTextLen)

(***************************************************************************)
(* index/faiss_store.py: FAISSStore.  The FAISS index is kept as its       *)
(* vector count (ntotal): the vectors come from the embedding model, one   *)
(* per text, and nothing in the program reads them but faiss itself.       *)
(***************************************************************************)
NoIndex == [present |-> FALSE, ntotal |-> 0]
Index(n) == [present |-> TRUE, ntotal |-> n]

\* FAISSStore.__init__: no index, no metadata.
FreshStore == [index |-> NoIndex, metadata |-> <<>>]

\* A build that appends to the metadata list.
BuildIndexAppending(st, cl) ==
    IF cl = <<>> THEN st
    ELSE [index |-> Index(Len(cl)),
          metadata |-> st.metadata \o [i \in 1..Len(cl) |-> cl[i].metadata]]

\* FAISSStore.build_index(chunks): one embedding per chunk text goes into a
\* new index; the metadata list is replaced.
BuildIndex(st, cl) ==
    IF cl = <<>> THEN st
    ELSE [index |-> Index(Len([i \in 1..Len(cl) |-> cl[i].text])),
          metadata |-> [i \in 1..Len(cl) |-> cl[i].metadata]]

\* The search proper, on a store that holds an index: faiss returns the
\* min(k, ntotal) best positions, in an order the embeddings decide; the
\* result loop reads self.metadata at each of them.
SearchHits(st, kk) ==
    LET r == Min(kk, st.index.ntotal)
        hits == {S \in SUBSET (0..(st.index.ntotal - 1)) : Cardinality(S) = r}
    IN  {IF \E idx \in S : idx >= Len(st.metadata)
         THEN [err |-> "IndexError", n |-> -1]
         ELSE [err |-> "none", n |-> r] : S \in hits}

\* A search without the guard on self.index: None has no search method.
SearchOutcomesUnguarded(st, kk) ==
    IF ~st.index.present THEN {[err |-> "AttributeError", n |-> -1]}
    ELSE SearchHits(st, kk)

\* FAISSStore.search(query, k): the possible outcomes [err, n], n the number
\* of results returned (-1: none, the call raised).
SearchOutcomes(st, kk) ==
    IF ~st.index.present THEN {[err |-> "ValueError", n |-> -1]}
    ELSE SearchHits(st, kk)

(***************************************************************************)
(* The index directory: faiss.index, meta.jsonl, config.json.              *)
(***************************************************************************)
NoFile == [exists |-> FALSE, content |-> <<>>]
File(c) == [exists |-> TRUE, content |-> c]

NoFaissFile == [exists |-> FALSE, valid |-> FALSE, ntotal |-> 0]
CorruptFaissFile == [exists |-> TRUE, valid |-> FALSE, ntotal |-> 0]
FaissFile(n) == [exists |-> TRUE, valid |-> TRUE, ntotal |-> n]

EmptyDisk == [dir |-> FALSE, faiss |-> NoFaissFile, meta |-> NoFile, config |-> NoFile]

K_model_name == <<"m", "o", "d", "e", "l", "_", "n", "a", "m", "e">>
K_dimension == <<"d", "i", "m", "e", "n", "s", "i", "o", "n">>
K_num_vectors == <<"n", "u", "m", "_", "v", "e", "c", "t", "o", "r", "s">>
K_title == <<"t", "i", "t", "l", "e">>
K_chunk_index == <<"c", "h", "u", "n", "k", "_", "i", "n", "d", "e", "x">>

\* settings.embedding_model and the dimension the model reports.
ModelName == <<"a", "l", "l", "-", "M", "i", "n", "i", "L", "M", "-", "L", "6", "-", "v", "2">>

\* The config dict of save.
ConfigDict(st) ==
    << <<K_model_name, StrVal(ModelName)>>,
       <<K_dimension, IntVal(384)>>,
       <<K_num_vectors, IntVal(st.index.ntotal)>> >>

\* d[key] of a parsed dict: [ok, val]; ok = FALSE is a KeyError.
Lookup(d, key) ==
    IF \E i \in 1..Len(d) : d[i][1] = key
    THEN [ok |-> TRUE, val |-> d[CHOOSE i \in 1..Len(d) : d[i][1] = key][2]]
    ELSE [ok |-> FALSE, val |-> IntVal(0)]

\* What a failed write_jsonl(data) can leave in the file it opened: the
\* lines of the first j records, or a cut first line.
PartialJsonl(data) ==
    {write_jsonl(SubSeq(data, 1, j)) : j \in 0..(Len(data) - 1)}
    \cup (IF data = <<>> THEN {}
          ELSE LET first == JsonDumps(data[1])
               IN  {SubSeq(first, 1, Len(first) \div 2)})

\* FAISSStore.save(index_path): the possible outcomes [disk, err].  Each
\* write can fail (an I/O error of the environment); what was written before
\* the failure stays.
SaveOutcomes(st, d) ==
    IF ~st.index.present THEN {[disk |-> d, err |-> "ValueError"]}
    ELSE LET Writes(d1, index, meta, cfg) ==
                 \* index_path.mkdir fails
                 (IF d.dir THEN {} ELSE {[disk |-> d, err |-> "OSError"]})
                 \* faiss.write_index fails: nothing or a cut file written
                 \cup {[disk |-> d1, err |-> "RuntimeError"],
                       [disk |-> [d1 EXCEPT !.faiss = CorruptFaissFile], err |-> "RuntimeError"]}
                 \* write_jsonl fails: at open, or part-way
                 \cup {[disk |-> [d1 EXCEPT !.faiss = index], err |-> "OSError"]}
                 \cup {[disk |-> [d1 EXCEPT !.faiss = index, !.meta = File(c)],
                        err |-> "OSError"] : c \in PartialJsonl(st.metadata)}
                 \* the config write fails: at open, or part-way
                 \cup {[disk |-> [d1 EXCEPT !.faiss = index, !.meta = File(meta)],
                        err |-> "OSError"],
                       [disk |-> [d1 EXCEPT !.faiss = index, !.meta = File(meta),
                                            !.config = File(SubSeq(cfg, 1, Len(cfg) \div 2))],
                        err |-> "OSError"]}
                 \* all three written
                 \cup {[disk |-> [d1 EXCEPT !.faiss = index, !.meta = File(meta),
                                            !.config = File(cfg)],
                        err |-> "none"]}
         IN  Writes([d EXCEPT !.dir = TRUE], FaissFile(st.index.ntotal),
                    write_jsonl(st.metadata), JsonDumpIndent2(ConfigDict(st)))

\* FAISSStore.load(index_path): [store, err], the store after the call and
\* the exception it raised ("none": it returned).
LoadResult(st, d) ==
    LET Metadata(st1, md) ==
            IF ~md.ok THEN [store |-> st1, err |-> "JSONDecodeError"]
            ELSE [store |-> [st1 EXCEPT !.metadata = md.val], err |-> "none"]
        IndexRead(st1) ==
            IF ~d.meta.exists THEN [store |-> st1, err |-> "FileNotFoundError"]
            ELSE Metadata(st1, read_jsonl(d.meta.content))
        Config(config) ==
            IF ~config.ok THEN [store |-> st, err |-> "JSONDecodeError"]
            ELSE IF ~Lookup(config.val, K_model_name).ok
            THEN [store |-> st, err |-> "KeyError"]
            ELSE IF ~d.faiss.exists \/ ~d.faiss.valid
            THEN [store |-> st, err |-> "RuntimeError"]
            ELSE IndexRead([st EXCEPT !.index = Index(d.faiss.ntotal)])
    IN  IF ~d.dir \/ ~d.config.exists THEN [store |-> st, err |-> "FileNotFoundError"]
        ELSE Config(JsonLoads(d.config.content))

(***************************************************************************)
(* Inputs of the store: chunk records whose metadata holds the characters  *)
(* JSON escapes, a non-ASCII character, and a two-digit integer.           *)
(***************************************************************************)
MetaDict(title, idx) == << <<K_title, StrVal(title)>>, <<K_chunk_index, IntVal(idx)>> >>

StoreChunks ==
    {[text |-> <<"x">>, metadata |-> MetaDict(<<"\"", "\\", "n">>, 0)],
     [text |-> <<"y">>, metadata |-> MetaDict(<<"U00E9", "\n", " ">>, 10)]}

\* The chunk lists build_index is given: the lists of distinct pool records.
ChunkLists ==
    {cl \in SeqsUpTo(StoreChunks, Cardinality(StoreChunks)) :
        \A i, j \in 1..Len(cl) : cl[i] = cl[j] => i = j}


(***************************************************************************)
(* retriever/retriever.py: Retriever.  self.store is None until a load     *)
(* succeeds.                                                               *)
(***************************************************************************)
Unloaded == [loaded |-> FALSE, store |-> FreshStore]

\* The assignment of load_index's result to self.store.
Assigned(r, res) ==
    IF res.err = "none"
    THEN [retr |-> [loaded |-> TRUE, store |-> res.store], err |-> "none", loads |-> 1]
    ELSE [retr |-> r, err |-> res.err, loads |-> 1]

\* A load_index that does nothing when a store is already loaded.
RetrLoadIndexOnce(r, d) ==
    IF r.loaded THEN [retr |-> r, err |-> "none", loads |-> 0]
    ELSE IF ~(d.dir /\ d.config.exists)
    THEN [retr |-> r, err |-> "FileNotFoundError", loads |-> 1]
    ELSE Assigned(r, LoadResult(FreshStore, d))

\* Retriever.load_index(): [retr, err, loads], loads = 1 recording that the
\* body ran.  load_index(path) of faiss_store.py constructs a store and loads
\* it; self.store is assigned when it returns.
RetrLoadIndex(r, d) ==
    IF ~(d.dir /\ d.config.exists)
    THEN [retr |-> r, err |-> "FileNotFoundError", loads |-> 1]
    ELSE Assigned(r, LoadResult(FreshStore, d))

\* The rest of Retriever.search once load_index has been called: li is the
\* outcome of that call.
SearchAfterLoad(li, kk) ==
    IF li.err # "none"
    THEN {[retr |-> li.retr, err |-> li.err, n |-> -1, loads |-> li.loads]}
    ELSE {[retr |-> li.retr, err |-> o.err, n |-> o.n, loads |-> li.loads] :
            o \in SearchOutcomes(li.retr.store, kk)}

\* A search that loads the index on every call.
RetrSearchAlwaysLoading(r, d, kk) == SearchAfterLoad(RetrLoadIndex(r, d), kk)

\* Retriever.search(query, k): the possible outcomes [retr, err, n, loads],
\* loads being the number of load_index calls the search made.
RetrSearch(r, d, kk) ==
    IF ~r.loaded THEN SearchAfterLoad(RetrLoadIndex(r, d), kk)
    ELSE {[retr |-> r, err |-> o.err, n |-> o.n, loads |-> 0] :
            o \in SearchOutcomes(r.store, kk)}

(***************************************************************************)
(* eval/retrieval_eval.py: the metrics, as fractions <<num, den>>.         *)
(***************************************************************************)
Range(q) == {q[i] : i \in 1..Len(q)}

\* 0.0
Zero == <<0, 1>>

compute_precision_at_k(retrieved, relevant, kk) ==
    IF PySlice(retrieved, 0, kk) = <<>> THEN Zero
    ELSE LET retrieved_at_k == Range(PySlice(retrieved, 0, kk))
         IN  <<Cardinality(retrieved_at_k \cap relevant), Cardinality(retrieved_at_k)>>

\* A recall that ignores the cutoff k.
compute_recall_uncut(retrieved, relevant, kk) ==
    IF relevant = {} THEN Zero
    ELSE <<Cardinality(Range(retrieved) \cap relevant), Cardinality(relevant)>>

compute_recall_at_k(retrieved, relevant, kk) ==
    IF relevant = {} THEN Zero
    ELSE LET retrieved_at_k == Range(PySlice(retrieved, 0, kk))
         IN  <<Cardinality(retrieved_at_k \cap relevant), Cardinality(relevant)>>

IdPool == {"a", "b", "c"}

(***************************************************************************)
(* eval/retrieval_eval.py: evaluate_retrieval, run_seed_evaluation.  A     *)
(* float that is a sum or a mean of quotients is kept as an exact          *)
(* fraction; fractions are compared by FracEq.                             *)
(***************************************************************************)
FracAdd(a, b) == <<a[1] * b[2] + b[1] * a[2], a[2] * b[2]>>

FracEq(a, b) == a[1] * b[2] = b[1] * a[2]

\* sum(values)
RECURSIVE FracSum(_)
FracSum(values) ==
    IF values = <<>> THEN Zero ELSE FracAdd(Head(values), FracSum(Tail(values)))

\* sum(values) / len(values) if values else 0.0
Mean(values) ==
    IF values = <<>> THEN Zero
    ELSE LET Over(t) == <<t[1], t[2] * Len(values)>> IN Over(FracSum(values))

\* k_values: List[int] = [1, 3, 5, 10]
KValues == <<1, 3, 5, 10>>

\* A lookup that finds no query.
GroundTruthMissing(ground_truth, query_id) == {}

\* ground_truth.get(query_id, set())
GroundTruthGet(ground_truth, query_id) ==
    IF query_id \in DOMAIN ground_truth THEN ground_truth[query_id] ELSE {}

\* [hit["metadata"]["arxiv_id"] for hit in result.get("results", [])]
HitIds(result) == [i \in 1..Len(result.results) |-> result.results[i].metadata.arxiv_id]

\* evaluate_retrieval: the map of averages, metrics.recall[k] standing for
\* the key "recall@k" and metrics.precision[k] for "precision@k".
evaluate_retrieval(retrieval_results, ground_truth, k_values) ==
    LET n == Len(retrieval_results)
        Relevant(i) == GroundTruthGet(ground_truth, retrieval_results[i].query)
        Recalls(kk) == [i \in 1..n |->
            compute_recall_at_k(HitIds(retrieval_results[i]), Relevant(i), kk)]
        Precisions(kk) == [i \in 1..n |->
            compute_precision_at_k(HitIds(retrieval_results[i]), Relevant(i), kk)]
    IN  [recall |-> [kk \in Range(k_values) |-> Mean(Recalls(kk))],
         precision |-> [kk \in Range(k_values) |-> Mean(Precisions(kk))]]

\* The keys of SEED_EVALUATION_DATA in insertion order.
SeedQueries == <<"contrastive learning", "attention mechanisms", "diffusion models">>

SEED_EVALUATION_DATA ==
    [q \in Range(SeedQueries) |->
        CASE q = "contrastive learning" -> {"2106.04102", "2002.05709"}
          [] q = "attention mechanisms" -> {"1706.03762", "1909.11942"}
          [] q = "diffusion models" -> {"2006.11239", "2105.05233"}]

ZeroMetrics ==
    [recall |-> [kk \in Range(KValues) |-> Zero],
     precision |-> [kk \in Range(KValues) |-> Zero]]

\* {"error": "No evaluation results"}
NoEvaluationResults ==
    [error |-> TRUE, num_queries |-> 0, metrics |-> ZeroMetrics, queries_evaluated |-> <<>>]

\* The hits a search returned, as far as the evaluation reads them.
Hits(ids) == [i \in 1..Len(ids) |-> [metadata |-> [arxiv_id |-> ids[i]]]]

\* The loop of run_seed_evaluation over the seed queries from position i on:
\* the list `results`.  retriever[q] is what retriever.search(q, k=k) does:
\* it raises, or it returns hits with the given ids.
RECURSIVE SeedResults(_, _, _)
SeedResults(retriever, i, results) ==
    IF i > Len(SeedQueries) THEN results
    ELSE IF retriever[SeedQueries[i]].raises
    THEN SeedResults(retriever, i + 1, results)
    ELSE SeedResults(retriever, i + 1,
             Append(results, [query |-> SeedQueries[i],
                              results |-> Hits(retriever[SeedQueries[i]].ids)]))

run_seed_evaluation(retriever, kk) ==
    LET Report(results) ==
            IF results = <<>> THEN NoEvaluationResults
            ELSE [error |-> FALSE,
                  num_queries |-> Len(results),
                  metrics |-> evaluate_retrieval(results, SEED_EVALUATION_DATA, KValues),
                  queries_evaluated |-> SeedQueries]
    IN  Report(SeedResults(retriever, 1, <<>>))

\* Ids outside every seed ground truth.
OtherIds == <<"1810.04805", "1301.3781", "1409.0473">>

\* The two relevant ids of a seed query, in the order of the source.
SeedIds(q) ==
    CASE q = "contrastive learning" -> <<"2106.04102", "2002.05709">>
      [] q = "attention mechanisms" -> <<"1706.03762", "1909.11942">>
      [] q = "diffusion models" -> <<"2006.11239", "2105.05233">>

\* What a retriever's search can do for query q: raise, or return no hit,
\* both relevant ids, both followed by three others, one behind another id,
\* or one twice.
StubOutcomes(q) ==
    {[raises |-> TRUE, ids |-> <<>>]}
    \cup {[raises |-> FALSE, ids |-> ids] :
            ids \in {<<>>,
                     SeedIds(q),
                     SeedIds(q) \o OtherIds,
                     <<OtherIds[1], SeedIds(q)[1]>>,
                     <<SeedIds(q)[1], SeedIds(q)[1], OtherIds[1]>>}}

NoEvaluation == [query |-> "", metrics |-> ZeroMetrics]

(***************************************************************************)
(* index/chunker.py: chunk_papers_from_metadata.  A paper dict is a record *)
(* of its values with the set of the keys it holds (keys); the value of a  *)
(* key it does not hold is never read.                                     *)
(***************************************************************************)
MaxPapers == 2

SectionAbstract == <<"a", "b", "s", "t", "r", "a", "c", "t">>

\* paper.get(key, default)
PaperGet(paper, key, default) == IF key \in paper.keys THEN paper[key] ELSE default

\* A test that also sends an abstract of exactly chunk_size characters to chunk_text.
IsLongAbstractInclusive(paper, flag, cs) == flag /\ Len(paper.abstract) >= cs

\* chunk_abstracts and len(paper["abstract"]) > chunk_size
IsLongAbstract(paper, flag, cs) == flag /\ Len(paper.abstract) > cs

\* The chunk_data of the else branch: the whole abstract as a single chunk.
WholeAbstractChunk(paper) ==
    [text |-> paper.abstract,
     metadata |-> [arxiv_id |-> PaperGet(paper, "arxiv_id", <<>>),
                   title |-> PaperGet(paper, "title", <<>>),
                   section |-> SectionAbstract,
                   chunk_index |-> 0,
                   char_start |-> 0,
                   char_end |-> Len(paper.abstract),
                   chunk_size |-> Len(paper.abstract),
                   authors |-> PaperGet(paper, "authors", <<>>),
                   categories |-> PaperGet(paper, "categories", <<>>),
                   published |-> PaperGet(paper, "published", <<>>)]]

\* The body of `for paper in papers_metadata`: the chunks one paper adds.
PaperChunks(paper, flag, cs, ov) ==
    IF PaperGet(paper, "abstract", <<>>) = <<>> THEN <<>>
    ELSE IF IsLongAbstract(paper, flag, cs)
    THEN chunk_text(paper.abstract, cs, ov,
                    PaperGet(paper, "arxiv_id", <<>>),
                    PaperGet(paper, "title", <<>>),
                    SectionAbstract)
    ELSE <<WholeAbstractChunk(paper)>>

RECURSIVE chunk_papers_from_metadata(_, _, _, _)
chunk_papers_from_metadata(papers, flag, cs, ov) ==
    IF papers = <<>> THEN <<>>
    ELSE PaperChunks(Head(papers), flag, cs, ov)
         \o chunk_papers_from_metadata(Tail(papers), flag, cs, ov)

AllPaperKeys == {"arxiv_id", "title", "authors", "abstract", "categories", "pdf_url", "published"}

Paper(keys, id, abstract) ==
    [keys |-> keys,
     arxiv_id |-> id,
     title |-> <<"T">> \o id,
     authors |-> << <<"A", "d", "a">>, <<"B", "o">> >>,
     abstract |-> abstract,
     categories |-> << <<"c", "s", ".", "C", "L">> >>,
     pdf_url |-> <<"u">> \o id,
     published |-> <<"2", "0", "2", "4", "-", "0", "1", "-", "0", "2">>]

\* Papers without an abstract key, with an empty, a short, a long, a blank
\* and a padded abstract; one of them holds nothing but its abstract.
PaperPool ==
    {Paper(AllPaperKeys \ {"abstract"}, <<"1">>, <<>>),
     Paper(AllPaperKeys, <<"2">>, <<>>),
     Paper(AllPaperKeys, <<"3">>, <<"a", "b">>),
     Paper({"abstract"}, <<"4">>, <<"a", "b", "a", "b", "a", "b", "a">>),
     Paper(AllPaperKeys, <<"5">>, <<" ", " ", " ">>),
     Paper(AllPaperKeys, <<"6">>, <<" ", "a", "b", " ", "a", "b">>)}

PaperChunkSizes == {2, 5, 20}
PaperOverlaps == {0, 1, 5}

(***************************************************************************)
(* utils/io.py on a path: the outcomes of a write and of a read.           *)
(***************************************************************************)
MaxRecords == 2

\* A writer that opens the file for appending.
WriteJsonlAppending(records, file) ==
    {[file |-> file, err |-> "OSError"]}
    \cup {[file |-> File(file.content \o c), err |-> "OSError"] : c \in PartialJsonl(records)}
    \cup {[file |-> File(file.content \o write_jsonl(records)), err |-> "none"]}

\* write_jsonl(data, filepath): the possible outcomes [file, err].  The mkdir
\* or the open can fail, leaving the path as it was; open(filepath, "w")
\* truncates, and a write that fails leaves what was written before it.
WriteJsonlOutcomes(records, file) ==
    {[file |-> file, err |-> "OSError"]}
    \cup {[file |-> File(c), err |-> "OSError"] : c \in PartialJsonl(records)}
    \cup {[file |-> File(write_jsonl(records)), err |-> "none"]}

\* read_jsonl(filepath): [err, val].
ReadJsonlResult(file) ==
    LET Read(r) == IF r.ok THEN [err |-> "none", val |-> r.val]
                   ELSE [err |-> "JSONDecodeError", val |-> <<>>]
    IN  IF ~file.exists THEN [err |-> "FileNotFoundError", val |-> <<>>]
        ELSE Read(read_jsonl(file.content))

\* The keys of paper_data that the model writes next to "title".
PaperKeys ==
    [arxiv_id |-> <<"a", "r", "x", "i", "v", "_", "i", "d">>,
     authors |-> <<"a", "u", "t", "h", "o", "r", "s">>,
     abstract |-> <<"a", "b", "s", "t", "r", "a", "c", "t">>,
     categories |-> <<"c", "a", "t", "e", "g", "o", "r", "i", "e", "s">>,
     pdf_url |-> <<"p", "d", "f", "_", "u", "r", "l">>,
     published |-> <<"p", "u", "b", "l", "i", "s", "h", "e", "d">>]

\* Records to write: an empty dict, dicts whose strings hold the characters
\* JSON escapes, a non-ASCII character and blanks, and a dict with a list.
JsonlRecords ==
    {<<>>,
     MetaDict(<<"\"", "\\", "n">>, 0),
     MetaDict(<<"U00E9", "\n", " ">>, 10),
     << <<PaperKeys.authors, ListVal(<< <<"A">>, <<"U00E9", ",", "]">> >>)>>,
        <<K_title, StrVal(<<>>)>>,
        <<PaperKeys.categories, ListVal(<<>>)>> >>}

JsonlLists == SeqsUpTo(JsonlRecords, MaxRecords)

\* What the path can hold before the write: nothing, the lines of an earlier
\* write, or text that is no JSONL.
PriorFiles ==
    {NoFile, File(<<"{", "x">>)} \cup {File(write_jsonl(d)) : d \in JsonlLists}

(***************************************************************************)
(* ingest/arxiv_client.py: the fetch command.                              *)
(***************************************************************************)
MaxFetched == 2

\* paper_data of fetch_arxiv_metadata, as the dict write_jsonl is given.
PaperDict(paper) ==
    << <<PaperKeys.arxiv_id, StrVal(paper.arxiv_id)>>,
       <<K_title, StrVal(paper.title)>>,
       <<PaperKeys.authors, ListVal(paper.authors)>>,
       <<PaperKeys.abstract, StrVal(paper.abstract)>>,
       <<PaperKeys.categories, ListVal(paper.categories)>>,
       <<PaperKeys.pdf_url, StrVal(paper.pdf_url)>>,
       <<PaperKeys.published, StrVal(paper.published)>> >>

PaperDicts(papers) == [i \in 1..Len(papers) |-> PaperDict(papers[i])]

\* The summary after the write: papers[-1] and papers[0] of an empty list
\* raise IndexError.
SummaryRaises(papers) == papers = <<>>

\* fetch(category, max_papers, out): the possible outcomes [file, exit_code,
\* stage], api being what fetch_arxiv_metadata does: it raises, or it returns
\* the papers.  stage names the statement that ended the command.
FetchOutcomes(api, file) ==
    LET Written(w) ==
            IF w.err # "none" THEN [file |-> w.file, exit_code |-> 1, stage |-> "write_failed"]
            ELSE IF SummaryRaises(api.papers)
            THEN [file |-> w.file, exit_code |-> 1, stage |-> "summary_failed"]
            ELSE [file |-> w.file, exit_code |-> 0, stage |-> "done"]
    IN  \* settings.ensure_dirs() raises, outside the try: the traceback ends the process
        {[file |-> file, exit_code |-> 1, stage |-> "dirs_failed"]}
        \cup (IF api.raises
              THEN {[file |-> file, exit_code |-> 1, stage |-> "fetch_failed"]}
              ELSE {Written(w) : w \in WriteJsonlOutcomes(PaperDicts(api.papers), file)})

\* The papers the API can return: all seven keys each.
FetchPool ==
    {Paper(AllPaperKeys, <<"7">>, <<"a", "b">>),
     Paper(AllPaperKeys, <<"8">>, <<"U00E9", "\n">>),
     Paper(AllPaperKeys, <<"9">>, <<>>)}

ApiOutcomes ==
    {[raises |-> TRUE, papers |-> <<>>]}
    \cup {[raises |-> FALSE, papers |-> ps] : ps \in SeqsUpTo(FetchPool, MaxFetched)}

(***************************************************************************)
(* Idle values of the parts a specification does not exercise.             *)
(***************************************************************************)
ChunkIdle ==
    /\ text = <<>>
    /\ chunk_size = DefaultChunkSize
    /\ overlap = DefaultOverlap
    /\ chunks = <<>>
    /\ cpc = "idle"

EvalIdle ==
    /\ retrieved_ids = <<>>
    /\ relevant_ids = {}
    /\ k = 0
    /\ precision = Zero
    /\ epc = "idle"
    /\ recall = Zero
    /\ rpc = "idle"

NoOutcome == [op |-> "init", err |-> "none", loads |-> 0]
NoSave == [clean |-> FALSE, chunks |-> <<>>]

HistInit == [src |-> "fresh", chunks |-> <<>>, saved |-> NoSave]

StoreIdle ==
    /\ store = FreshStore
    /\ disk = EmptyDisk
    /\ out = NoOutcome
    /\ hist = HistInit

Threads == {"t1", "t2"}

RetrIdle ==
    /\ retr = Unloaded
    /\ tpc = [t \in Threads |-> "idle"]
    /\ tsaw = [t \in Threads |-> FALSE]
    /\ nloads = 0

SeedIdle ==
    /\ stub = [q \in Range(SeedQueries) |-> [raises |-> TRUE, ids |-> <<>>]]
    /\ seed_result = NoEvaluationResults
    /\ eval_result = NoEvaluation
    /\ spc = "idle"

PaperIdle ==
    /\ papers_metadata = <<>>
    /\ chunk_abstracts = TRUE
    /\ all_chunks = <<>>
    /\ ppc = "idle"

JsonlIdle ==
    /\ filepath = NoFile
    /\ prior_file = NoFile
    /\ jdata = <<>>
    /\ readback = [err |-> "none", val |-> <<>>]
    /\ jpc = "idle"

FetchIdle ==
    /\ fetched = [raises |-> TRUE, papers |-> <<>>]
    /\ out_file = NoFile
    /\ exit_code = 0
    /\ fpc = "idle"

MoreIdle == SeedIdle /\ PaperIdle /\ JsonlIdle /\ FetchIdle

(***************************************************************************)
(* The chunker as a state machine: one call of chunk_text on drawn inputs. *)
(***************************************************************************)
ChunkInputs ==
    /\ \/ /\ text \in ShortTexts
          /\ chunk_size \in 1..MaxChunkSize
          /\ overlap \in 0..MaxOverlap
       \/ /\ text \in LongTexts
          /\ chunk_size = DefaultChunkSize
          /\ overlap = DefaultOverlap
    /\ chunks = <<>>
    /\ cpc = "ready"

ChunkTextCall ==
    /\ cpc = "ready"
    /\ chunks' = chunk_text(text, chunk_size, overlap, <<>>, <<>>, <<"m", "a", "i", "n">>)
    /\ cpc' = "done"
    /\ UNCHANGED <<text, chunk_size, overlap>>
    /\ UNCHANGED <<evalVars, storeVars, retrVars, moreVars>>

ChunkNext == ChunkTextCall

ChunkInit == ChunkInputs /\ EvalIdle /\ StoreIdle /\ RetrIdle /\ MoreIdle

SpecChunk == ChunkInit /\ [][ChunkNext]_vars

(***************************************************************************)
(* The metrics as a state machine: one call on drawn inputs.               *)
(***************************************************************************)
EvalInputs ==
    /\ retrieved_ids \in SeqsUpTo(IdPool, MaxRetrieved)
    /\ relevant_ids \in SUBSET IdPool
    /\ k \in 0..MaxK
    /\ precision = Zero
    /\ epc = "ready"
    /\ recall = Zero
    /\ rpc = "ready"

PrecisionCall ==
    /\ epc = "ready"
    /\ precision' = compute_precision_at_k(retrieved_ids, relevant_ids, k)
    /\ epc' = "done"
    /\ UNCHANGED <<retrieved_ids, relevant_ids, k, recall, rpc>>
    /\ UNCHANGED <<chunkVars, storeVars, retrVars, moreVars>>

RecallCall ==
    /\ rpc = "ready"
    /\ recall' = compute_recall_at_k(retrieved_ids, relevant_ids, k)
    /\ rpc' = "done"
    /\ UNCHANGED <<retrieved_ids, relevant_ids, k, precision, epc>>
    /\ UNCHANGED <<chunkVars, storeVars, retrVars, moreVars>>

EvalNext == PrecisionCall \/ RecallCall

EvalInit == EvalInputs /\ ChunkIdle /\ StoreIdle /\ RetrIdle /\ MoreIdle

SpecEval == EvalInit /\ [][EvalNext]_vars

(***************************************************************************)
(* A FAISSStore object and the index directory it saves to and loads from. *)
(* Construct replaces the object by a newly constructed one, so that       *)
(* successive stores share the directory.  out is the outcome of the last  *)
(* call.  hist records which call last replaced the in-memory state (src), *)
(* the last non-empty chunk list the store was built from (chunks), and    *)
(* whether the directory holds exactly what the last successful save wrote *)
(* and from which built chunk list (saved).                                *)
(***************************************************************************)
Construct ==
    /\ store' = FreshStore
    /\ out' = [op |-> "construct", err |-> "none", loads |-> 0]
    /\ hist' = [hist EXCEPT !.src = "fresh", !.chunks = <<>>]
    /\ UNCHANGED disk
    /\ UNCHANGED <<chunkVars, evalVars, retrVars, moreVars>>

Build(cl) ==
    /\ store' = BuildIndex(store, cl)
    /\ out' = [op |-> IF cl = <<>> THEN "build_empty" ELSE "build",
               err |-> "none", loads |-> 0]
    /\ hist' = IF cl = <<>> THEN hist
               ELSE [hist EXCEPT !.src = "built", !.chunks = cl]
    /\ UNCHANGED disk
    /\ UNCHANGED <<chunkVars, evalVars, retrVars, moreVars>>

Search(kk) ==
    \E o \in SearchOutcomes(store, kk) :
        /\ out' = [op |-> "search", err |-> o.err, loads |-> 0]
        /\ UNCHANGED <<store, disk, hist>>
        /\ UNCHANGED <<chunkVars, evalVars, retrVars, moreVars>>

Save ==
    \E o \in SaveOutcomes(store, disk) :
        /\ disk' = o.disk
        /\ out' = [op |-> "save", err |-> o.err, loads |-> 0]
        /\ hist' = IF o.err = "none"
                   THEN [hist EXCEPT !.saved =
                           [clean |-> TRUE,
                            chunks |-> IF hist.src = "built" THEN hist.chunks ELSE <<>>]]
                   ELSE IF o.disk = disk THEN hist
                   ELSE [hist EXCEPT !.saved = NoSave]
        /\ UNCHANGED store
        /\ UNCHANGED <<chunkVars, evalVars, retrVars, moreVars>>

Load ==
    \E r \in {LoadResult(store, disk)} :
        /\ store' = r.store
        /\ out' = [op |-> "load", err |-> r.err, loads |-> 0]
        /\ hist' = IF r.err = "none"
                   THEN [hist EXCEPT !.src = "loaded", !.chunks = <<>>]
                   ELSE IF r.store = store THEN hist
                   ELSE [hist EXCEPT !.src = "partial", !.chunks = <<>>]
        /\ UNCHANGED disk
        /\ UNCHANGED <<chunkVars, evalVars, retrVars, moreVars>>

StoreNext ==
    \/ Construct
    \/ \E cl \in ChunkLists : Build(cl)
    \/ \E kk \in 1..MaxK : Search(kk)
    \/ Save
    \/ Load

StoreInit == StoreIdle /\ ChunkIdle /\ EvalIdle /\ RetrIdle /\ MoreIdle

SpecStore == StoreInit /\ [][StoreNext]_vars

(***************************************************************************)
(* A Retriever over the index directory, called sequentially.  CliBuild is *)
(* the `build` command of faiss_store.py writing the directory.            *)
(***************************************************************************)
RLoadIndex ==
    \E li \in {RetrLoadIndex(retr, disk)} :
        /\ retr' = li.retr
        /\ out' = [op |-> "r_load", err |-> li.err, loads |-> li.loads]
        /\ UNCHANGED <<store, disk, hist, tpc, tsaw, nloads>>
        /\ UNCHANGED <<chunkVars, evalVars, moreVars>>

RSearch(kk) ==
    \E o \in RetrSearch(retr, disk, kk) :
        /\ retr' = o.retr
        /\ out' = [op |-> "r_search", err |-> o.err, loads |-> o.loads]
        /\ UNCHANGED <<store, disk, hist, tpc, tsaw, nloads>>
        /\ UNCHANGED <<chunkVars, evalVars, moreVars>>

\* build(chunks, out): a new store is built from the chunk file's records and
\* saved; an exception ends the command with exit status 1.
CliBuild(cl) ==
    \E o \in SaveOutcomes(BuildIndex(FreshStore, cl), disk) :
        /\ disk' = o.disk
        /\ out' = [op |-> "cli_build", err |-> o.err, loads |-> 0]
        /\ UNCHANGED <<store, hist, retr, tpc, tsaw, nloads>>
        /\ UNCHANGED <<chunkVars, evalVars, moreVars>>

RetrNext ==
    \/ RLoadIndex
    \/ \E kk \in 1..MaxK : RSearch(kk)
    \/ \E cl \in ChunkLists : CliBuild(cl)

RetrInit == RetrIdle /\ StoreIdle /\ ChunkIdle /\ EvalIdle /\ MoreIdle

SpecRetr == RetrInit /\ [][RetrNext]_vars

(***************************************************************************)
(* Two threads calling Retriever.search on one unloaded Retriever.  A      *)
(* thread's steps are the statements of search: the test of self.store,    *)
(* the load_index call, the store's search.                                *)
(***************************************************************************)
\* The directories a `build` command can have left.
BuiltDisks ==
    {EmptyDisk}
    \cup UNION {{o.disk : o \in SaveOutcomes(BuildIndex(FreshStore, cl), EmptyDisk)} :
                  cl \in ChunkLists}

ConcInputs ==
    /\ disk \in BuiltDisks
    /\ retr = Unloaded
    /\ tpc = [t \in Threads |-> "test"]
    /\ tsaw = [t \in Threads |-> FALSE]
    /\ nloads = 0
    /\ store = FreshStore
    /\ out = NoOutcome
    /\ hist = HistInit

\* if self.store is None:
TTest(t) ==
    /\ tpc[t] = "test"
    /\ tsaw' = [tsaw EXCEPT ![t] = ~retr.loaded]
    /\ tpc' = [tpc EXCEPT ![t] = IF retr.loaded THEN "search" ELSE "load"]
    /\ UNCHANGED <<retr, nloads, storeVars>>
    /\ UNCHANGED <<chunkVars, evalVars, moreVars>>

\* self.load_index()
TLoad(t) ==
    /\ tpc[t] = "load"
    /\ \E li \in {RetrLoadIndex(retr, disk)} :
           /\ retr' = li.retr
           /\ nloads' = nloads + li.loads
           /\ tpc' = [tpc EXCEPT ![t] = IF li.err = "none" THEN "search" ELSE "raised"]
    /\ UNCHANGED <<tsaw, storeVars>>
    /\ UNCHANGED <<chunkVars, evalVars, moreVars>>

\* results = self.store.search(query, k=k), and the formatting of the results
TSearch(t) ==
    /\ tpc[t] = "search"
    /\ \E kk \in 1..MaxK : \E o \in SearchOutcomes(retr.store, kk) :
           tpc' = [tpc EXCEPT ![t] = IF o.err = "none" THEN "done" ELSE "raised"]
    /\ UNCHANGED <<retr, tsaw, nloads, storeVars>>
    /\ UNCHANGED <<chunkVars, evalVars, moreVars>>

ConcNext == \E t \in Threads : TTest(t) \/ TLoad(t) \/ TSearch(t)

ConcInit == ConcInputs /\ ChunkIdle /\ EvalIdle /\ MoreIdle

SpecRetrConc == ConcInit /\ [][ConcNext]_vars

(***************************************************************************)
(* The seed evaluation as a state machine: one run_seed_evaluation over a  *)
(* retriever whose search does what stub says, and evaluate_retrieval on   *)
(* the result of one query.                                                *)
(***************************************************************************)
\* k: int = 5
DefaultK == 5

SeedInputs ==
    /\ stub \in [Range(SeedQueries) -> UNION {StubOutcomes(q) : q \in Range(SeedQueries)}]
    /\ \A q \in Range(SeedQueries) : stub[q] \in StubOutcomes(q)
    /\ seed_result = NoEvaluationResults
    /\ eval_result = NoEvaluation
    /\ spc = "ready"

RunSeedEvaluation ==
    /\ spc = "ready"
    /\ seed_result' = run_seed_evaluation(stub, DefaultK)
    /\ spc' = "done"
    /\ UNCHANGED <<stub, eval_result>>
    /\ UNCHANGED <<chunkVars, evalVars, storeVars, retrVars, paperVars, jsonlVars, fetchVars>>

EvaluateQuery(q) ==
    /\ eval_result.query = ""
    /\ ~stub[q].raises
    /\ eval_result' =
         [query |-> q,
          metrics |-> evaluate_retrieval(<<[query |-> q, results |-> Hits(stub[q].ids)]>>,
                                         SEED_EVALUATION_DATA, KValues)]
    /\ UNCHANGED <<stub, seed_result, spc>>
    /\ UNCHANGED <<chunkVars, evalVars, storeVars, retrVars, paperVars, jsonlVars, fetchVars>>

SeedNext == RunSeedEvaluation \/ \E q \in Range(SeedQueries) : EvaluateQuery(q)

SeedInit ==
    SeedInputs /\ ChunkIdle /\ EvalIdle /\ StoreIdle /\ RetrIdle
    /\ PaperIdle /\ JsonlIdle /\ FetchIdle

SpecSeed == SeedInit /\ [][SeedNext]_vars

(***************************************************************************)
(* chunk_papers_from_metadata as a state machine: one call on drawn inputs.*)
(***************************************************************************)
PaperInputs ==
    /\ papers_metadata \in SeqsUpTo(PaperPool, MaxPapers)
    /\ chunk_abstracts \in BOOLEAN
    /\ chunk_size \in PaperChunkSizes
    /\ overlap \in PaperOverlaps
    /\ text = <<>>
    /\ chunks = <<>>
    /\ cpc = "idle"
    /\ all_chunks = <<>>
    /\ ppc = "ready"

ChunkPapersCall ==
    /\ ppc = "ready"
    /\ all_chunks' = chunk_papers_from_metadata(papers_metadata, chunk_abstracts,
                                                chunk_size, overlap)
    /\ ppc' = "done"
    /\ UNCHANGED <<papers_metadata, chunk_abstracts, chunkVars>>
    /\ UNCHANGED <<evalVars, storeVars, retrVars, seedVars, jsonlVars, fetchVars>>

PaperNext == ChunkPapersCall

PaperInit ==
    PaperInputs /\ EvalIdle /\ StoreIdle /\ RetrIdle /\ SeedIdle /\ JsonlIdle /\ FetchIdle

SpecPapers == PaperInit /\ [][PaperNext]_vars

(***************************************************************************)
(* A JSONL path as a state machine: write_jsonl of a drawn list over drawn *)
(* prior contents, then read_jsonl of the same path.  prior_file keeps     *)
(* what the path held before the write.                                    *)
(***************************************************************************)
JsonlInputs ==
    /\ filepath \in PriorFiles
    /\ prior_file = filepath
    /\ jdata \in JsonlLists
    /\ readback = [err |-> "none", val |-> <<>>]
    /\ jpc = "ready"

WriteJsonl ==
    /\ jpc = "ready"
    /\ \E o \in WriteJsonlOutcomes(jdata, filepath) :
           /\ filepath' = o.file
           /\ jpc' = IF o.err = "none" THEN "written" ELSE "write_failed"
    /\ UNCHANGED <<prior_file, jdata, readback>>
    /\ UNCHANGED <<chunkVars, evalVars, storeVars, retrVars, seedVars, paperVars, fetchVars>>

ReadJsonl ==
    /\ jpc \in {"written", "write_failed"}
    /\ \E r \in {ReadJsonlResult(filepath)} : readback' = r
    /\ jpc' = IF jpc = "written" THEN "read" ELSE "read_after_failure"
    /\ UNCHANGED <<filepath, prior_file, jdata>>
    /\ UNCHANGED <<chunkVars, evalVars, storeVars, retrVars, seedVars, paperVars, fetchVars>>

JsonlNext == WriteJsonl \/ ReadJsonl

JsonlInit ==
    JsonlInputs /\ ChunkIdle /\ EvalIdle /\ StoreIdle /\ RetrIdle
    /\ SeedIdle /\ PaperIdle /\ FetchIdle

SpecJsonl == JsonlInit /\ [][JsonlNext]_vars

(***************************************************************************)
(* The fetch command as a state machine: one run over what the API does    *)
(* and what the output path holds.                                         *)
(***************************************************************************)
FetchInputs ==
    /\ fetched \in ApiOutcomes
    /\ out_file \in {NoFile, File(<<>>)}
                    \cup {File(write_jsonl(PaperDicts(<<p>>))) : p \in FetchPool}
    /\ exit_code = 0
    /\ fpc = "ready"

Fetch ==
    /\ fpc = "ready"
    /\ \E o \in FetchOutcomes(fetched, out_file) :
           /\ out_file' = o.file
           /\ exit_code' = o.exit_code
           /\ fpc' = o.stage
    /\ UNCHANGED fetched
    /\ UNCHANGED <<chunkVars, evalVars, storeVars, retrVars, seedVars, paperVars, jsonlVars>>

FetchNext == Fetch

FetchInit ==
    FetchInputs /\ ChunkIdle /\ EvalIdle /\ StoreIdle /\ RetrIdle
    /\ SeedIdle /\ PaperIdle /\ JsonlIdle

SpecFetch == FetchInit /\ [][FetchNext]_vars

(***************************************************************************)
(* Properties of chunk_text, under SpecChunk.                              *)
(***************************************************************************)
Trimmed == Strip(text)

\* The length of the window that starts at offset j * st of a text of L characters.
WindowLen(j, st, L) == Min(chunk_size, L - j * st)

\* Window j ends the chunking: it starts at or after the end of the text, or
\* it is shorter than 10% of chunk_size.
Stops(j, st, L) == j * st >= L \/ 10 * WindowLen(j, st, L) < chunk_size

\* The number of windows before the first one that stops.
Kept(st, L) == CHOOSE n \in 0..L : Stops(n, st, L) /\ \A j \in 0..(n - 1) : ~Stops(j, st, L)

WindowsAre(st, L) ==
    /\ Len(chunks) = Kept(st, L)
    /\ \A j \in 0..(Len(chunks) - 1) :
         /\ chunks[j + 1].text = SubSeq(Trimmed, j * st + 1, j * st + WindowLen(j, st, L))
         /\ chunks[j + 1].metadata.chunk_index = j
         /\ chunks[j + 1].metadata.char_start = j * st
         /\ chunks[j + 1].metadata.char_end - chunks[j + 1].metadata.char_start
              = Len(chunks[j + 1].text)
         /\ chunks[j + 1].metadata.chunk_size = Len(chunks[j + 1].text)

Spans(c, lo, hi) == c.metadata.char_start = lo /\ c.metadata.char_end = hi

\* C1: for a text whose trimmed form is non-empty, chunk_text returns exactly
\* the windows trimmed[j*step : j*step + chunk_size], j = 0, 1, ..., with
\* step = max(chunk_size - overlap, 1), up to the first window shorter than
\* 10% of chunk_size or starting at the end of the text; chunk j has
\* chunk_index j, char_start j*step, and char_end - char_start = chunk_size
\* field = length of its text.  A 2000-character text with chunk_size 1200 and
\* overlap 120 gives the two chunks [0,1200) and [1080,2000).
C1_Windows ==
    (cpc = "done" /\ Trimmed # <<>>) =>
        /\ WindowsAre(Max(chunk_size - overlap, 1), Len(Trimmed))
        /\ (Len(Trimmed) = 2000 /\ chunk_size = 1200 /\ overlap = 120) =>
             /\ Len(chunks) = 2
             /\ Spans(chunks[1], 0, 1200)
             /\ Spans(chunks[2], 1080, 2000)

C1_Witness ==
    /\ cpc = "done"
    /\ Len(Trimmed) = 2000 /\ Len(text) > 2000
    /\ Len(chunks) = 2
    /\ Len(chunks[2].text) = 920

\* C2 as stated: a text of trimmed length 1205 with chunk_size 1200 and
\* overlap 120 gives exactly 1 chunk.
C2_OneChunk ==
    (cpc = "done" /\ Len(Trimmed) = 1205 /\ chunk_size = 1200 /\ overlap = 120) =>
        Len(chunks) = 1

\* C2 amended: a text of trimmed length 1205 with chunk_size 1200 and
\* overlap 120 gives exactly 2 chunks: the second window starts at 1080 and
\* has 125 characters, which is not below 10% of chunk_size (120).  The tail
\* is discarded for a trimmed length of 1085, whose second window has 5
\* characters: exactly 1 chunk.
C2_TwoChunks ==
    (cpc = "done" /\ chunk_size = 1200 /\ overlap = 120) =>
        /\ Len(Trimmed) = 1205 =>
             /\ Len(chunks) = 2
             /\ Spans(chunks[1], 0, 1200)
             /\ Spans(chunks[2], 1080, 1205)
        /\ Len(Trimmed) = 1085 =>
             /\ Len(chunks) = 1
             /\ Spans(chunks[1], 0, 1085)

C2_Witness ==
    /\ cpc = "done"
    /\ Len(Trimmed) = 1205 /\ chunk_size = 1200 /\ overlap = 120
    /\ Len(chunks) = 2
    /\ Len(chunks[2].text) = 125

(***************************************************************************)
(* Properties of the store and its directory, under SpecStore.             *)
(***************************************************************************)
AllFilesExist == disk.faiss.exists /\ disk.meta.exists /\ disk.config.exists

AllFilesWellFormed ==
    /\ disk.faiss.valid
    /\ JsonLoads(disk.config.content).ok
    /\ Lookup(JsonLoads(disk.config.content).val, K_num_vectors).ok
    /\ read_jsonl(disk.meta.content).ok

ConfigNumVectors == Lookup(JsonLoads(disk.config.content).val, K_num_vectors).val.n

\* C3: the three files are one atomic unit: in every directory state where
\* all three exist (and can be read), config.num_vectors = number of
\* meta.jsonl records = vector count of faiss.index, also after a save that
\* failed part-way.
C3_FilesAgree ==
    (AllFilesExist /\ AllFilesWellFormed) =>
        /\ ConfigNumVectors = Len(read_jsonl(disk.meta.content).val)
        /\ ConfigNumVectors = disk.faiss.ntotal

\* C4: after any successful load, the loaded index's vector count equals the
\* length of the loaded metadata list.
C4_LoadedCountsAgree ==
    (out.op = "load" /\ out.err = "none") =>
        store.index.ntotal = Len(store.metadata)

MetadataOf(cl) == [i \in 1..Len(cl) |-> cl[i].metadata]

\* C5: a store on which build_index was the last call to replace the state
\* reflects exactly the last non-empty chunk list: vector count = metadata
\* length = number of chunks, metadata[i] the metadata of chunk i; a store on
\* which only empty lists were built holds nothing; and a build_index call
\* with an empty list changes neither index nor metadata.
C5_BuildReflectsLast ==
    /\ [](hist.src = "built" =>
            /\ hist.chunks # <<>>
            /\ store.index.present
            /\ store.index.ntotal = Len(hist.chunks)
            /\ Len(store.metadata) = Len(hist.chunks)
            /\ \A i \in 1..Len(hist.chunks) :
                  store.metadata[i] = hist.chunks[i].metadata)
    /\ [](hist.src = "fresh" => (~store.index.present /\ store.metadata = <<>>))
    /\ [][out'.op = "build_empty" => store' = store]_vars

C5_Witness ==
    /\ out.op = "build_empty"
    /\ hist.src = "built"
    /\ Len(hist.chunks) = 2
    /\ store.index.ntotal = 2
    /\ store.metadata = MetadataOf(hist.chunks)

\* C6: in every state in which the store holds no index, search and save
\* fail with the invalid-state error, return nothing, write or create no file
\* or directory, and leave the store as it was.
C6_NoIndexFails ==
    [][(~store.index.present /\ out'.op \in {"search", "save"}) =>
          /\ out'.err = "ValueError"
          /\ disk' = disk
          /\ store' = store]_vars

C6_Witness ==
    /\ out.op \in {"search", "save"}
    /\ out.err = "ValueError"
    /\ ~store.index.present
    /\ hist.src = "fresh"
    /\ disk = EmptyDisk

\* C7: after build_index on N >= 1 chunk records and a successful save, a
\* load of the directory succeeds with a metadata list identical to the
\* built one (length N, same values, same order), and the config written
\* records num_vectors = N.
C7_RoundTrip ==
    /\ (hist.saved.clean /\ hist.saved.chunks # <<>>) =>
          /\ JsonLoads(disk.config.content).ok
          /\ ConfigNumVectors = Len(hist.saved.chunks)
    /\ (out.op = "load" /\ hist.saved.clean /\ hist.saved.chunks # <<>>) =>
          /\ out.err = "none"
          /\ Len(store.metadata) = Len(hist.saved.chunks)
          /\ store.metadata = MetadataOf(hist.saved.chunks)

C7_Witness ==
    /\ out.op = "load" /\ out.err = "none"
    /\ hist.src = "loaded"
    /\ hist.saved.clean
    /\ Len(hist.saved.chunks) = 2
    /\ store.metadata = MetadataOf(hist.saved.chunks)
    /\ store.metadata[1] # store.metadata[2]

(***************************************************************************)
(* Properties of the Retriever, under SpecRetr and SpecRetrConc.           *)
(***************************************************************************)
IndexAtPath == disk.dir /\ disk.config.exists

\* C8: a search on a Retriever with no loaded store calls load_index exactly
\* once; a search on a Retriever with a loaded store calls it not at all, and
\* a loaded store stays loaded; with no index at the path the search fails
\* with the FileNotFoundError of an explicit load_index and the Retriever
\* stays unloaded.
C8_LazyLoad ==
    /\ [][out'.op = "r_search" => out'.loads = (IF retr.loaded THEN 0 ELSE 1)]_vars
    /\ [][retr.loaded => retr'.loaded]_vars
    /\ [][(out'.op = "r_search" /\ ~retr.loaded /\ ~IndexAtPath) =>
             /\ out'.err = "FileNotFoundError"
             /\ out'.err = RetrLoadIndex(retr, disk).err
             /\ ~retr'.loaded]_vars

C8_Witness ==
    /\ out.op = "r_search"
    /\ out.loads = 1
    /\ out.err = "none"
    /\ retr.loaded

Passed(t) == tpc[t] \in {"search", "done", "raised"}

\* C9: nothing guards the lazy load: every thread that saw self.store = None
\* runs load_index once it proceeds, whatever the other thread did meanwhile;
\* so two concurrent first searches can both load (C9_Witness).
C9_EveryObserverLoads ==
    nloads = Cardinality({t \in Threads : tsaw[t] /\ Passed(t)})

C9_Witness ==
    /\ nloads = 2
    /\ \A t \in Threads : tsaw[t] /\ tpc[t] = "done"
    /\ retr.loaded

(***************************************************************************)
(* Properties of the metrics, under SpecEval.                              *)
(***************************************************************************)
Slice == PySlice(retrieved_ids, 0, k)

\* The relevant ids found in the slice: counted once each, or at each position.
RelevantDistinct == Cardinality(Range(Slice) \cap relevant_ids)
RelevantPositions == Cardinality({i \in 1..Len(Slice) : Slice[i] \in relevant_ids})

\* C10: compute_precision_at_k returns 0.0 when retrieved[:k] is empty, and
\* otherwise the number of relevant ids found in retrieved[:k] divided by the
\* length of the slice, also when an id occurs more than once.
C10_PrecisionOverSlice ==
    epc = "done" =>
        IF Slice = <<>> THEN precision[1] = 0
        ELSE \/ precision[1] * Len(Slice) = RelevantDistinct * precision[2]
             \/ precision[1] * Len(Slice) = RelevantPositions * precision[2]

\* The relevant ids that occur among the first k retrieved ids.
RelevantFound ==
    {r \in relevant_ids : \E i \in 1..Min(k, Len(retrieved_ids)) : retrieved_ids[i] = r}

\* C11: compute_recall_at_k returns 0.0 when the relevant set is empty, and
\* otherwise the number of distinct relevant ids among the first k retrieved
\* ids divided by the size of the relevant set; the result lies in [0, 1].
C11_Recall ==
    rpc = "done" =>
        /\ recall[2] > 0
        /\ 0 <= recall[1] /\ recall[1] <= recall[2]
        /\ IF relevant_ids = {} THEN recall[1] = 0
           ELSE recall[1] * Cardinality(relevant_ids) = Cardinality(RelevantFound) * recall[2]

C11_Witness ==
    /\ rpc = "done"
    /\ k >= 1 /\ Len(retrieved_ids) > k
    /\ retrieved_ids[Len(retrieved_ids)] \in relevant_ids \ RelevantFound
    /\ \E i, j \in 1..k : i # j /\ retrieved_ids[i] = retrieved_ids[j]
    /\ recall = <<1, 2>>

(***************************************************************************)
(* Properties of the seed evaluation, under SpecSeed.                      *)
(***************************************************************************)
Diffusion == "diffusion models"

\* evaluate_retrieval has run on the result of the diffusion query, whose
\* hits carry the given ids in rank order.
EvaluatedDiffusion(ids) == eval_result.query = Diffusion /\ stub[Diffusion].ids = ids

TwoHits == <<"2006.11239", "2105.05233">>

\* C12 as stated: when the result for "diffusion models" consists of the hits
\* 2006.11239 and 2105.05233 at ranks 1-2, Recall@5 = 1.0 and
\* Precision@5 = 2/5.
C12_SeedScenario ==
    EvaluatedDiffusion(TwoHits) =>
        /\ FracEq(eval_result.metrics.recall[5], <<1, 1>>)
        /\ FracEq(eval_result.metrics.precision[5], <<2, 5>>)

\* C12 amended: when the result consists of exactly these two hits,
\* Recall@5 = 1.0 and Precision@5 = 2/2 = 1.0 (the slice retrieved[:5] holds
\* two ids); Precision@5 = 2/5 when the two hits are followed by three hits
\* with other ids, Recall@5 still being 1.0.
C12_SeedScenarioAmended ==
    /\ EvaluatedDiffusion(TwoHits) =>
          /\ FracEq(eval_result.metrics.recall[5], <<1, 1>>)
          /\ FracEq(eval_result.metrics.precision[5], <<1, 1>>)
    /\ EvaluatedDiffusion(TwoHits \o OtherIds) =>
          /\ FracEq(eval_result.metrics.recall[5], <<1, 1>>)
          /\ FracEq(eval_result.metrics.precision[5], <<2, 5>>)

C12_Witness ==
    /\ EvaluatedDiffusion(TwoHits)
    /\ eval_result.metrics.precision[5][1] = 2
    /\ eval_result.metrics.precision[5][2] = 2
    /\ eval_result.metrics.recall[5][1] = 2

\* The seed queries whose search returned, in the order of the seed data.
SucceededQueries == SelectSeq(SeedQueries, LAMBDA q : ~stub[q].raises)

\* The mean of Metric(q) over the succeeded queries.
MeanOverSucceeded(Metric(_)) ==
    Mean([i \in 1..Len(SucceededQueries) |-> Metric(SucceededQueries[i])])

SeedMetricsOverSucceeded ==
    \A kk \in Range(KValues) :
        /\ LET R(q) == compute_recall_at_k(stub[q].ids, SEED_EVALUATION_DATA[q], kk)
           IN  FracEq(seed_result.metrics.recall[kk], MeanOverSucceeded(R))
        /\ LET P(q) == compute_precision_at_k(stub[q].ids, SEED_EVALUATION_DATA[q], kk)
           IN  FracEq(seed_result.metrics.precision[kk], MeanOverSucceeded(P))

\* C13: a failing query is not fatal and is left out; when every query fails
\* the result is {"error": "No evaluation results"}; otherwise num_queries is
\* the number of queries that succeeded, the metrics are the means over the
\* succeeded queries, and queries_evaluated lists exactly the queries that
\* were evaluated.
C13_SeedEvaluation ==
    spc = "done" =>
        IF SucceededQueries = <<>> THEN seed_result = NoEvaluationResults
        ELSE /\ ~seed_result.error
             /\ seed_result.num_queries = Len(SucceededQueries)
             /\ SeedMetricsOverSucceeded
             /\ seed_result.queries_evaluated = SucceededQueries

(***************************************************************************)
(* Properties of chunk_papers_from_metadata, under SpecPapers.             *)
(***************************************************************************)
HasAbstract(p) == "abstract" \in p.keys /\ p.abstract # <<>>

KeptWhole(p) == ~chunk_abstracts \/ Len(p.abstract) <= chunk_size

\* The chunks chunk_text gives for the abstract of p.
AbstractChunks(p) ==
    chunk_text(p.abstract, chunk_size, overlap,
               PaperGet(p, "arxiv_id", <<>>), PaperGet(p, "title", <<>>), SectionAbstract)

\* The number of chunks paper p is to contribute.
Contribution(p) ==
    IF ~HasAbstract(p) THEN 0
    ELSE IF KeptWhole(p) THEN 1
    ELSE Len(AbstractChunks(p))

\* The number of chunks the first i papers are to contribute.
RECURSIVE ContributionUpTo(_)
ContributionUpTo(i) ==
    IF i = 0 THEN 0 ELSE ContributionUpTo(i - 1) + Contribution(papers_metadata[i])

PaperFields == {"authors", "categories", "published"}

WholeAbstract(p, c) ==
    /\ c.text = p.abstract
    /\ c.metadata.chunk_index = 0
    /\ c.metadata.char_start = 0
    /\ c.metadata.char_end = Len(p.abstract)
    /\ c.metadata.section = SectionAbstract
    /\ PaperFields \subseteq DOMAIN c.metadata
    /\ c.metadata.authors = PaperGet(p, "authors", <<>>)
    /\ c.metadata.categories = PaperGet(p, "categories", <<>>)
    /\ c.metadata.published = PaperGet(p, "published", <<>>)

\* seg is what paper p is to contribute.
ContributionIs(p, seg) ==
    IF ~HasAbstract(p) THEN seg = <<>>
    ELSE IF KeptWhole(p) THEN Len(seg) = 1 /\ WholeAbstract(p, seg[1])
    ELSE /\ seg = AbstractChunks(p)
         /\ \A j \in 1..Len(seg) : PaperFields \cap DOMAIN seg[j].metadata = {}

\* C14: the output is the concatenation, in input order, of each paper's
\* contribution: nothing for a missing or empty abstract; the whole abstract
\* as one chunk (chunk_index 0, char_start 0, char_end = len(abstract),
\* section "abstract", authors, categories and published copied) when the
\* abstract is at most chunk_size long or chunking is disabled; otherwise
\* chunk_text(abstract, section "abstract"), without those three fields.
C14_PaperChunks ==
    ppc = "done" =>
        /\ Len(all_chunks) = ContributionUpTo(Len(papers_metadata))
        /\ \A i \in 1..Len(papers_metadata) :
              ContributionIs(papers_metadata[i],
                             SubSeq(all_chunks, ContributionUpTo(i - 1) + 1, ContributionUpTo(i)))

C14_Witness ==
    /\ ppc = "done"
    /\ chunk_abstracts
    /\ Len(papers_metadata) = 2
    /\ Len(papers_metadata[1].abstract) > chunk_size
    /\ Len(papers_metadata[2].abstract) = chunk_size
    /\ Len(all_chunks) >= 3
    /\ "authors" \notin DOMAIN all_chunks[1].metadata
    /\ all_chunks[Len(all_chunks)].text = papers_metadata[2].abstract
    /\ "authors" \in DOMAIN all_chunks[Len(all_chunks)].metadata

(***************************************************************************)
(* Properties of write_jsonl and read_jsonl, under SpecJsonl.              *)
(***************************************************************************)
\* C15: after a write_jsonl of a list to a path, whatever the path held
\* before, read_jsonl of the path returns a list equal to the written one:
\* same length, order and values; nothing of an earlier write survives.
C15_JsonlRoundTrip ==
    jpc = "read" =>
        /\ readback.err = "none"
        /\ Len(readback.val) = Len(jdata)
        /\ readback.val = jdata

C15_Witness ==
    /\ jpc = "read"
    /\ prior_file.exists
    /\ Len(read_jsonl(prior_file.content).val) = 2
    /\ Len(jdata) = 1
    /\ jdata[1] \notin Range(read_jsonl(prior_file.content).val)
    /\ \E i \in 1..Len(jdata[1]) : jdata[1][i][2].t = "list" /\ jdata[1][i][2].l # <<>>
    /\ readback.val = jdata

(***************************************************************************)
(* Properties of the fetch command, under SpecFetch.                       *)
(***************************************************************************)
FetchOrWriteFailed == fpc \in {"dirs_failed", "fetch_failed", "write_failed"}

\* C16: the fetch command exits with status 1 if and only if the fetch or
\* the write of the output file failed; when both succeed, for any fetched
\* list, the empty one included, it exits 0 and the output file holds
\* exactly the fetched records.
C16_FetchExit ==
    fpc \notin {"idle", "ready"} =>
        /\ exit_code = 1 <=> FetchOrWriteFailed
        /\ ~FetchOrWriteFailed =>
              /\ exit_code = 0
              /\ ReadJsonlResult(out_file).err = "none"
              /\ ReadJsonlResult(out_file).val = PaperDicts(fetched.papers)

(***************************************************************************)
(* Further properties of the store, under SpecStore.                       *)
(***************************************************************************)
\* C17: a load that fails leaves the store's index and metadata as they
\* were before the call.
C17_FailedLoadKeepsState ==
    [][(out'.op = "load" /\ out'.err # "none") => store' = store]_vars

(***************************************************************************)
(* Further properties of chunk_text, under SpecChunk.                      *)
(***************************************************************************)
Covered(pos) ==
    \E j \in 1..Len(chunks) :
        chunks[j].metadata.char_start <= pos /\ pos < chunks[j].metadata.char_end

\* C18: when overlap is at least 10% of chunk_size and the trimmed text is
\* at least 10% of chunk_size long, every character position of the trimmed
\* text lies in [char_start, char_end) of a returned chunk.
C18_NoTextLost ==
    (cpc = "done" /\ 10 * overlap >= chunk_size /\ 10 * Len(Trimmed) >= chunk_size) =>
        \A pos \in 0..(Len(Trimmed) - 1) : Covered(pos)

C18_Witness ==
    /\ cpc = "done"
    /\ chunk_size = 1200 /\ overlap = 120
    /\ Len(Trimmed) = 2279
    /\ Len(chunks) = 2
    /\ chunks[2].metadata.char_end = 2279
    /\ \A pos \in 0..2278 : Covered(pos)

\* C19: chunk_text returns no chunk if and only if the trimmed text is empty
\* or shorter than 10% of chunk_size.
C19_EmptyIff ==
    cpc = "done" =>
        (chunks = <<>> <=> (Trimmed = <<>> \/ 10 * Len(Trimmed) < chunk_size))

C19_Witness ==
    /\ cpc = "done"
    /\ chunk_size = 1200
    /\ Len(Trimmed) = 119
    /\ chunks = <<>>

====
